---- MODULE Spec2Model ----
(***************************************************************************)
(* A model of regex.py: a rule loader (load_rules), a matcher (scan_token, *)
(* scan_file), a reporter (Color, print_summary) and the command-line      *)
(* driver (main).  One run of the program is one behaviour: Init draws the *)
(* command line, the terminal, the rules directory and the token file, and *)
(* the actions are the steps of main in program order.                     *)
(***************************************************************************)
EXTENDS Integers, Sequences, FiniteSets, TLC

(***************************************************************************)
(* Bounds of the model.                                                    *)
(***************************************************************************)
MaxFiles == 2
MaxItems == 2
MaxLines == 2

(***************************************************************************)
(* Python values as they come out of yaml.safe_load and argparse.          *)
(***************************************************************************)
PyNone == [t |-> "none"]
PyStr(s) == [t |-> "str", s |-> s]
PyInt(n) == [t |-> "int", n |-> n]
PyList(l) == [t |-> "list", l |-> l]
PyDict(f) == [t |-> "map", f |-> f]
EmptyDict == PyDict(<<>>)

\* Python truthiness (bool(v)) of a loaded value
Truthy(v) ==
    CASE v.t = "none" -> FALSE
      [] v.t = "str"  -> v.s /= <<>>
      [] v.t = "int"  -> v.n /= 0
      [] v.t = "list" -> v.l /= <<>>
      [] v.t = "map"  -> DOMAIN v.f /= {}

\* dict.get(key, default)
Get(m, key, default) == IF key \in DOMAIN m.f THEN m.f[key] ELSE default

\* substring containment, `sub in s` for two strings
Contains(s, sub) ==
    \E i \in 1..(Len(s) + 1) :
        /\ i + Len(sub) - 1 <= Len(s)
        /\ SubSeq(s, i, i + Len(sub) - 1) = sub

(***************************************************************************)
(* re.compile and Pattern.search, for the regular expressions written with *)
(* literals, `.`, `*`, `|` and groups.                                     *)
(***************************************************************************)
Eps == [op |-> "eps"]
Lit(c) == [op |-> "lit", c |-> c]
AnyChar == [op |-> "any"]
Cat(l, r) == [op |-> "cat", l |-> l, r |-> r]
Alt(l, r) == [op |-> "alt", l |-> l, r |-> r]
Star(r) == [op |-> "star", r |-> r]

ParseError == [ok |-> FALSE, ast |-> Eps, pos |-> 0]
Parsed(ast, pos) == [ok |-> TRUE, ast |-> ast, pos |-> pos]

RECURSIVE ParseSub(_, _)
RECURSIVE ParseItems(_, _)

\* one atom at s[i]: a group, `.` or a literal; a leading `*` has nothing to repeat
ParseAtom(s, i) ==
    IF s[i] = "*" THEN ParseError
    ELSE IF s[i] = "(" THEN
        LET g == ParseSub(s, i + 1) IN
        IF ~g.ok THEN g
        ELSE IF g.pos <= Len(s) /\ s[g.pos] = ")" THEN Parsed(g.ast, g.pos + 1)
        ELSE ParseError
    ELSE IF s[i] = "." THEN Parsed(AnyChar, i + 1)
    ELSE Parsed(Lit(s[i]), i + 1)

\* an optional `*` after the atom a; `**` is a multiple repeat
ParseRepeat(s, a) ==
    IF a.pos <= Len(s) /\ s[a.pos] = "*" THEN
        IF a.pos + 1 <= Len(s) /\ s[a.pos + 1] = "*" THEN ParseError
        ELSE Parsed(Star(a.ast), a.pos + 1)
    ELSE a

\* a concatenation, up to `|`, `)` or the end of the source
ParseItems(s, i) ==
    IF i > Len(s) \/ s[i] \in {"|", ")"} THEN Parsed(Eps, i)
    ELSE
        LET a == ParseAtom(s, i) IN
        IF ~a.ok THEN a
        ELSE
            LET q == ParseRepeat(s, a) IN
            IF ~q.ok THEN q
            ELSE
                LET rest == ParseItems(s, q.pos) IN
                IF ~rest.ok THEN rest
                ELSE Parsed(Cat(q.ast, rest.ast), rest.pos)

\* alternatives separated by `|`
ParseSub(s, i) ==
    LET l == ParseItems(s, i) IN
    IF ~l.ok THEN l
    ELSE IF l.pos <= Len(s) /\ s[l.pos] = "|" THEN
        LET r == ParseSub(s, l.pos + 1) IN
        IF ~r.ok THEN r ELSE Parsed(Alt(l.ast, r.ast), r.pos)
    ELSE l

\* re.compile(source): ok = FALSE stands for re.error
re_compile(s) ==
    LET p == ParseSub(s, 1) IN
    IF p.ok /\ p.pos = Len(s) + 1 THEN p ELSE ParseError

RECURSIVE FullMatch(_, _)
\* the whole of s is matched by the expression
FullMatch(ast, s) ==
    CASE ast.op = "eps"  -> s = <<>>
      [] ast.op = "lit"  -> s = <<ast.c>>
      [] ast.op = "any"  -> Len(s) = 1 /\ s[1] /= "\n"
      [] ast.op = "cat"  ->
            \E k \in 0..Len(s) :
                /\ FullMatch(ast.l, SubSeq(s, 1, k))
                /\ FullMatch(ast.r, SubSeq(s, k + 1, Len(s)))
      [] ast.op = "alt"  -> FullMatch(ast.l, s) \/ FullMatch(ast.r, s)
      [] ast.op = "star" ->
            \/ s = <<>>
            \/ \E k \in 1..Len(s) :
                /\ FullMatch(ast.r, SubSeq(s, 1, k))
                /\ FullMatch(ast, SubSeq(s, k + 1, Len(s)))

\* Pattern.search(token): a match anywhere inside the token
re_search(ast, token) ==
    \E i \in 1..(Len(token) + 1) :
        \E j \in (i - 1)..Len(token) :
            FullMatch(ast, SubSeq(token, i, j))

(***************************************************************************)
(* Color                                                                   *)
(***************************************************************************)
RED == "ESC[31m"
GREEN == "ESC[32m"
YELLOW == "ESC[33m"
CYAN == "ESC[36m"
BOLD == "ESC[1m"
RESET == "ESC[0m"
AnsiCodes == {RED, GREEN, YELLOW, CYAN, BOLD, RESET}

\* wrap that takes no notice of the flag
wrap_always(enabled, text, color) == <<color>> \o text \o <<RESET>>

\* Color.wrap(text, color), with Color.enabled passed as `enabled`
wrap(enabled, text, color) ==
    IF ~enabled THEN text ELSE <<color>> \o text \o <<RESET>>

\* one printed line of standard output
Line(kind, text) == [kind |-> kind, text |-> text]

Digits == <<"0", "1", "2", "3", "4", "5", "6", "7", "8", "9">>
RECURSIVE str_int(_)
\* str(n) of a non-negative integer, as an f-string formats it
str_int(n) ==
    IF n < 10 THEN <<Digits[n + 1]>>
    ELSE str_int(n \div 10) \o <<Digits[(n % 10) + 1]>>

\* str(v) of a loaded value, as print shows it
str_value(v) ==
    CASE v.t = "str"  -> v.s
      [] v.t = "int"  -> str_int(v.n)
      [] v.t = "none" -> <<"None">>
      [] OTHER        -> <<"<repr>">>

(***************************************************************************)
(* The file system: the entries of the rules directory and the token file. *)
(***************************************************************************)
\* a path is a sequence of characters; the directory part is kept in one piece
DEFAULT_RULES_DIR == <<"/opt/regex/list">>

\* the entries under `patterns` used in the rule files
Rule(name, regex) == PyDict([pattern |-> PyDict([name |-> PyStr(name), regex |-> regex])])
ItemPool == <<
    Rule(<<"e", "m">>, PyStr(<<"a">>)),                      \* 1: valid
    Rule(<<"k">>, PyStr(<<"a", "*", "b">>)),                 \* 2: valid
    PyDict([pattern |-> PyDict([regex |-> PyStr(<<"b">>)])]),  \* 3: valid, no name
    Rule(<<"e", "m">>, PyStr(<<"(", "a", "|", "b", ")", "b">>)), \* 4: valid, name of 1
    Rule(<<"p">>, PyStr(<<"(">>)),                           \* 5: invalid syntax
    Rule(<<"s">>, PyStr(<<"a", "*", "*">>)),                 \* 6: invalid syntax
    PyDict([pattern |-> PyDict([name |-> PyStr(<<"n">>)])]), \* 7: regex missing
    Rule(<<"z">>, PyStr(<<>>)),                              \* 8: regex: ""
    Rule(<<"i">>, PyInt(5)),                                 \* 9: regex: 5
    Rule(<<"o">>, PyNone),                                   \* 10: regex: null
    EmptyDict,                                               \* 11: entry without `pattern`
    PyStr(<<"x">>),                                          \* 12: entry is a scalar
    PyDict([pattern |-> PyNone]),                            \* 13: pattern: null
    PyDict([pattern |-> PyStr(<<"a">>)])                     \* 14: pattern is a scalar
>>

\* what yaml.safe_load makes of a rule file that has no list under `patterns`
PATTERNS == <<"p", "a", "t", "t", "e", "r", "n", "s">>
DataPool == <<
    PyNone,                                      \* 1: empty file
    PyDict([other |-> PyInt(1)]),                \* 2: no `patterns` key
    PyDict([patterns |-> PyNone]),               \* 3: patterns: (nothing)
    PyDict([patterns |-> PyList(<<>>)]),         \* 4: patterns: []
    PyDict([patterns |-> PyStr(<<"r">>)]),       \* 5: patterns: r
    PyStr(PATTERNS),                             \* 6: the scalar `patterns`
    PyInt(7),                                    \* 7: the scalar 7
    PyList(<<PyStr(<<"a">>)>>)                   \* 8: a top-level list
>>

\* names of directory entries
NamePool == <<
    <<"a", ".", "y", "m", "l">>,
    <<"b", ".", "y", "a", "m", "l">>,
    <<"g", ".", "y", "m", "l">>,
    <<"c", ".", "y", "x", "m", "l">>,
    <<".", "h", ".", "y", "m", "l">>,
    <<"d", ".", "t", "x", "t">>,
    <<"e", ".", "y", "m", "l", "~">>,
    <<"y", "m", "l">>
>>

\* A directory entry: its name, whether it lies in a subdirectory instead of
\* directly in the rules directory, whether open() and yaml.safe_load succeed,
\* and what is loaded: data > 0 is DataPool[data], data = 0 is a mapping with
\* the entries ItemPool[items[1]], ... under `patterns`.
Entry(name, sub, readable, data, items) ==
    [name |-> name, sub |-> sub, readable |-> readable, data |-> data, items |-> items]

EntryData(e) ==
    IF e.data > 0 THEN DataPool[e.data]
    ELSE PyDict([patterns |-> PyList([i \in 1..Len(e.items) |-> ItemPool[e.items[i]]])])

EntryPath(rules_dir, e) ==
    IF e.sub THEN rules_dir \o <<"/", "s", "/">> \o NamePool[e.name]
    ELSE rules_dir \o <<"/">> \o NamePool[e.name]

RECURSIVE basename(_)
\* os.path.basename
basename(path) ==
    IF path = <<>> THEN <<>>
    ELSE IF path[Len(path)] = "/" THEN <<>>
    ELSE basename(SubSeq(path, 1, Len(path) - 1)) \o <<path[Len(path)]>>

(***************************************************************************)
(* glob.glob(os.path.join(rules_dir, "*.y*ml"))                            *)
(***************************************************************************)
GLOB_PATTERN == <<"*", ".", "y", "*", "m", "l">>

RECURSIVE fnmatch(_, _)
fnmatch(name, pat) ==
    IF pat = <<>> THEN name = <<>>
    ELSE IF Head(pat) = "*" THEN
        \E k \in 0..Len(name) : fnmatch(SubSeq(name, k + 1, Len(name)), Tail(pat))
    ELSE name /= <<>> /\ Head(name) = Head(pat) /\ fnmatch(Tail(name), Tail(pat))

\* glob leaves out dot-files unless the pattern itself starts with a dot
ishidden(name) == name /= <<>> /\ name[1] = "."

\* the entries glob returns, in listing order: only names directly in the
\* directory are listed
glob(entries) ==
    SelectSeq(entries, LAMBDA e :
        /\ ~e.sub
        /\ ~ishidden(NamePool[e.name])
        /\ fnmatch(NamePool[e.name], GLOB_PATTERN))

(***************************************************************************)
(* load_rules                                                              *)
(***************************************************************************)
UNKNOWN == <<"u", "n", "k", "n", "o", "w", "n">>

\* `"patterns" in data` for a mapping, a string or a list
HasPatterns(data) ==
    CASE data.t = "map"  -> "patterns" \in DOMAIN data.f
      [] data.t = "str"  -> Contains(data.s, PATTERNS)
      [] data.t = "list" -> \E i \in 1..Len(data.l) : data.l[i] = PyStr(PATTERNS)
      [] OTHER           -> FALSE

\* what `for item in v` yields for a list, a string or a mapping
Iterate(v) ==
    CASE v.t = "list" -> v.l
      [] v.t = "str"  -> [i \in 1..Len(v.s) |-> PyStr(<<v.s[i]>>)]
      [] v.t = "map"  -> [i \in 1..Cardinality(DOMAIN v.f) |-> PyStr(<<"<key>">>)]
      [] OTHER        -> <<>>

\* The loader's locals: the files glob found, the rules found so far (a
\* dictionary in insertion order: one [file, rules] per key), their count, the
\* lines printed, and whether an exception no handler catches has ended the call.
NoRules == [raised |-> FALSE, files |-> <<>>, rules |-> <<>>, total |-> 0, out |-> <<>>]
Raise(acc) == [acc EXCEPT !.raised = TRUE]

\* rules[file].append((name, compiled)); total_rules += 1
AppendRule(acc, path, name, compiled) ==
    LET r == [name |-> name, regex |-> compiled]
        at == { k \in 1..Len(acc.rules) : acc.rules[k].file = path }
    IN  [acc EXCEPT
            !.rules = IF at = {} THEN Append(@, [file |-> path, rules |-> <<r>>])
                      ELSE [k \in 1..Len(@) |->
                                IF k \in at THEN [@[k] EXCEPT !.rules = Append(@, r)]
                                ELSE @[k]],
            !.total = @ + 1]

\* the body of `for item in data["patterns"]`
LoadItem(acc, path, item) ==
    IF item.t /= "map" THEN Raise(acc)                  \* item.get: AttributeError
    ELSE
        LET pattern_obj == Get(item, "pattern", EmptyDict) IN
        IF pattern_obj.t /= "map" THEN Raise(acc)       \* pattern_obj.get: AttributeError
        ELSE
            LET name == Get(pattern_obj, "name", PyStr(UNKNOWN))
                regex == Get(pattern_obj, "regex", PyNone)
            IN  IF ~Truthy(regex) THEN acc
                ELSE IF regex.t /= "str" THEN Raise(acc)  \* re.compile: TypeError
                ELSE
                    LET compiled == re_compile(regex.s) IN
                    IF compiled.ok THEN AppendRule(acc, path, name, compiled.ast)
                    ELSE acc

RECURSIVE LoadItems(_, _, _, _)
LoadItems(acc, path, items, i) ==
    IF acc.raised \/ i > Len(items) THEN acc
    ELSE LoadItems(LoadItem(acc, path, items[i]), path, items, i + 1)

\* the body of `for file in files`
LoadFile(enabled, acc, path, e) ==
    IF ~e.readable THEN
        [acc EXCEPT !.out = Append(@, Line("load_failed",
            wrap(enabled, <<"[!] Failed to load ">> \o path \o <<": <e>">>, RED)))]
    ELSE
        LET data == EntryData(e) IN
        IF ~Truthy(data) THEN acc
        ELSE IF data.t = "int" THEN Raise(acc)          \* `in` on a number: TypeError
        ELSE IF ~HasPatterns(data) THEN acc
        ELSE IF data.t /= "map" THEN Raise(acc)         \* data["patterns"]: TypeError
        ELSE
            LET patterns == data.f["patterns"] IN
            IF patterns.t \in {"none", "int"} THEN Raise(acc)  \* not iterable
            ELSE LoadItems(acc, path, Iterate(patterns), 1)

RECURSIVE LoadFiles(_, _, _, _, _)
LoadFiles(enabled, acc, rules_dir, files, i) ==
    IF acc.raised \/ i > Len(files) THEN acc
    ELSE LoadFiles(enabled,
                   LoadFile(enabled, acc, EntryPath(rules_dir, files[i]), files[i]),
                   rules_dir, files, i + 1)

load_rules(enabled, rules_dir, entries) ==
    LET files == glob(entries) IN
    IF files = <<>> THEN
        [NoRules EXCEPT !.out = <<Line("no_yaml",
            wrap(enabled, <<"[!] No YAML files found in ">> \o rules_dir, RED))>>]
    ELSE LoadFiles(enabled,
                   [NoRules EXCEPT !.files = [k \in 1..Len(files) |->
                                                EntryPath(rules_dir, files[k])]],
                   rules_dir, files, 1)

(***************************************************************************)
(* scan_token, print_summary and str.strip                                 *)
(***************************************************************************)
RECURSIVE FileMatches(_, _, _)
\* the names of the rules of one file that match, in rule order
FileMatches(token, file_rules, i) ==
    IF i > Len(file_rules) THEN <<>>
    ELSE IF re_search(file_rules[i].regex, token)
         THEN <<file_rules[i].name>> \o FileMatches(token, file_rules, i + 1)
         ELSE FileMatches(token, file_rules, i + 1)

\* the report of one file: nothing without a match
MatchGroup(enabled, file, matches) ==
    IF matches = <<>> THEN <<>>
    ELSE <<Line("match_file",
                wrap(enabled, <<"\n[+] Match in ">> \o basename(file), GREEN))>>
         \o [k \in 1..Len(matches) |->
                Line("match_rule",
                     <<"   -", " ">> \o wrap(enabled, str_value(matches[k]), YELLOW))]

RECURSIVE ScanFiles_CountFiles(_, _, _, _, _)
\* the loop with one match counted per file instead of one per rule
ScanFiles_CountFiles(enabled, token, rules, i, acc) ==
    IF i > Len(rules) THEN acc
    ELSE
        LET matches == FileMatches(token, rules[i].rules, 1) IN
        ScanFiles_CountFiles(enabled, token, rules, i + 1,
            [found |-> acc.found \/ matches /= <<>>,
             total_matches |-> acc.total_matches + IF matches /= <<>> THEN 1 ELSE 0,
             out |-> acc.out \o MatchGroup(enabled, rules[i].file, matches)])

RECURSIVE ScanFiles(_, _, _, _, _)
\* the loop over rules.items(): acc is [found, total_matches, out]
ScanFiles(enabled, token, rules, i, acc) ==
    IF i > Len(rules) THEN acc
    ELSE
        LET matches == FileMatches(token, rules[i].rules, 1) IN
        ScanFiles(enabled, token, rules, i + 1,
            [found |-> acc.found \/ matches /= <<>>,
             total_matches |-> acc.total_matches + Len(matches),
             out |-> acc.out \o MatchGroup(enabled, rules[i].file, matches)])

scan_token(enabled, token, rules) ==
    LET r == ScanFiles(enabled, token, rules, 1,
                       [found |-> FALSE, total_matches |-> 0, out |-> <<>>])
    IN  [total_matches |-> r.total_matches,
         out |-> IF ~r.found
                 THEN r.out \o <<Line("no_match",
                                      wrap(enabled, <<"\n[-] No matches found">>, RED))>>
                 ELSE r.out]

print_summary(enabled, tokens, matches) ==
    << Line("separator", <<"\n====">>),
       Line("summary", wrap(enabled, <<"SCAN COMPLETE">>, BOLD)),
       Line("summary_tokens",
            wrap(enabled, <<"Tokens scanned : ">> \o str_int(tokens), CYAN)),
       Line("summary_matches",
            wrap(enabled, <<"Total matches  : ">> \o str_int(matches), GREEN)) >>

Whitespace == {" ", "\t", "\n", "\r", "\f"}

RECURSIVE lstrip(_)
lstrip(s) == IF s /= <<>> /\ Head(s) \in Whitespace THEN lstrip(Tail(s)) ELSE s

RECURSIVE rstrip(_)
rstrip(s) ==
    IF s /= <<>> /\ s[Len(s)] \in Whitespace THEN rstrip(SubSeq(s, 1, Len(s) - 1)) ELSE s

\* a strip that leaves the end of the line alone
strip_left_only(s) == lstrip(s)

\* str.strip()
strip(s) == rstrip(lstrip(s))

(***************************************************************************)
(* The run: main                                                           *)
(***************************************************************************)
VARIABLES
    args,           \* argparse's namespace: token, file, no_color
    tty,            \* sys.stdout.isatty()
    entries,        \* the entries of args.directory, in listing order
    tokfile,        \* the file args.file names: [exists, lines]
    enabled,        \* Color.enabled
    pc,             \* where main is
    files,          \* load_rules' `files`, once it has run
    rules,          \* main's `rules`
    total_rules,    \* main's `total_rules`
    lineno,         \* scan_file: lines read so far
    tokens_scanned, \* scan_file's local
    total_matches,  \* scan_file's local
    out,            \* the lines printed on standard output
    calls,          \* the calls of load_rules, scan_token and print_summary so far
    exit_code       \* the exit status, -1 while the process runs

vars == <<args, tty, entries, tokfile, enabled, pc, files, rules, total_rules, lineno,
          tokens_scanned, total_matches, out, calls, exit_code>>

inputs == <<args, tty, entries, tokfile>>

\* a call: the function, the token scanned, its numbers (load_rules: the count
\* returned, -1 for an exception; scan_token: the count returned;
\* print_summary: its two arguments) and the lines it printed
Call(fn, token, a, b, printed) ==
    [fn |-> fn, token |-> token, a |-> a, b |-> b, out |-> printed]

\* the lines of token files, as `for line in f` yields them
LinePool == <<
    <<"a", "b", "\n">>,
    <<" ", "b", " ", "\n">>,
    <<"\t", "a", " ", "b", "\n">>,
    <<"\n">>,
    <<" ", "\t", "\n">>,
    <<"b", "a">>
>>

\* only the last line of a file can lack its newline
WellFormedLines(ls) ==
    \A k \in 1..Len(ls) : k < Len(ls) => LinePool[ls[k]][Len(LinePool[ls[k]])] = "\n"

TokenFiles ==
    { ls \in UNION { [1..n -> 1..Len(LinePool)] : n \in 0..MaxLines } : WellFormedLines(ls) }

\* a directory: up to MaxFiles entries of the pool with distinct paths
Directories(pool) ==
    { d \in UNION { [1..n -> pool] : n \in 0..MaxFiles } :
        \A i, j \in 1..Len(d) : i /= j => <<d[i].name, d[i].sub>> /= <<d[j].name, d[j].sub>> }

\* rule files with every kind of content under the name a.yml, and one rule
\* under every other name
LoadPool ==
    { Entry(1, FALSE, TRUE, 0, it) :
        it \in UNION { [1..n -> 1..Len(ItemPool)] : n \in 0..MaxItems } }
    \cup { Entry(1, FALSE, TRUE, k, <<>>) : k \in 1..Len(DataPool) }
    \cup { Entry(1, FALSE, FALSE, 1, <<>>) }
    \cup { Entry(n, FALSE, TRUE, 0, <<2>>) : n \in 2..Len(NamePool) }
    \cup { Entry(1, TRUE, TRUE, 0, <<2>>) }

\* rule files for the runs of the driver: rules that load, rules that do not,
\* an unreadable file and a file that is not found
DriverPool ==
    { Entry(n, FALSE, TRUE, 0, it) :
        n \in 1..2, it \in {<<1, 2>>, <<4, 3>>, <<5, 7>>, <<12>>} }
    \cup { Entry(3, FALSE, FALSE, 1, <<>>), Entry(6, FALSE, TRUE, 0, <<1>>) }

A_TOKEN == <<"a", "b">>
A_PATH == <<"t">>

CmdLine(token, file, exists, lines) ==
    [token |-> token, file |-> file, exists |-> exists, lines |-> lines]

\* the command lines of the driver's runs
DriverCmdLines ==
    { CmdLine(t, PyNone, FALSE, <<>>) : t \in {PyNone, PyStr(<<>>), PyStr(A_TOKEN)} }
    \cup { CmdLine(t, PyStr(<<>>), FALSE, <<>>) : t \in {PyNone, PyStr(A_TOKEN)} }
    \cup { CmdLine(t, PyStr(A_PATH), FALSE, <<>>) :
            t \in {PyNone, PyStr(<<>>), PyStr(A_TOKEN)} }
    \cup { CmdLine(t, PyStr(A_PATH), TRUE, ls) :
            t \in {PyNone, PyStr(<<>>), PyStr(A_TOKEN)}, ls \in {<<>>, <<1, 4, 2>>} }

InitOf(dirs, cmdlines, ttys, no_colors) ==
    /\ entries \in dirs
    /\ \E c \in cmdlines, nc \in no_colors :
        /\ args = [token |-> c.token, file |-> c.file, no_color |-> nc]
        /\ tokfile = [exists |-> c.exists, lines |-> c.lines]
    /\ tty \in ttys
    /\ enabled = tty                      \* enabled = sys.stdout.isatty()
    /\ pc = "start"
    /\ files = <<>>
    /\ rules = <<>>
    /\ total_rules = 0
    /\ lineno = 0
    /\ tokens_scanned = 0
    /\ total_matches = 0
    /\ out = <<>>
    /\ calls = <<>>
    /\ exit_code = -1

DriverDirs == Directories(DriverPool)

Init == InitOf(DriverDirs, DriverCmdLines, BOOLEAN, BOOLEAN)

\* The runs of the loader: every kind of rule file, a few command lines.
LoadDirs == Directories(LoadPool)

LoadCmdLines ==
    { CmdLine(PyStr(A_TOKEN), PyNone, FALSE, <<>>),
      CmdLine(PyNone, PyStr(A_PATH), TRUE, <<1>>) }

InitLoad == InitOf(LoadDirs, LoadCmdLines, {FALSE}, {FALSE})

\* The runs of the matcher: rule files that load, every token and token file.
ScanPool ==
    { Entry(n, FALSE, TRUE, 0, it) :
        n \in 1..2, it \in {<<1, 2>>, <<4, 3>>, <<5, 7>>, <<3, 8, 1>>} }

ScanDirs == Directories(ScanPool)

TokenPool ==
    { <<"a", "b">>, <<"b">>, <<"b", "a">>, <<"a", "a">>, <<" ", "a">>, <<"c">> }

ScanCmdLines ==
    { CmdLine(PyStr(t), PyNone, FALSE, <<>>) : t \in TokenPool }
    \cup { CmdLine(PyNone, PyStr(A_PATH), TRUE, ls) : ls \in TokenFiles }
    \cup { CmdLine(PyNone, PyStr(A_PATH), FALSE, <<>>) }

InitScan == InitOf(ScanDirs, ScanCmdLines, {TRUE}, {FALSE, TRUE})

\* sys.exit(code), the end of main, or an exception no handler catches
Exit(code) == pc' = "exit" /\ exit_code' = code

\* `not args.token and not args.file`
no_input(a) == ~Truthy(a.token) /\ ~Truthy(a.file)

\* a check that never finds the rules missing
no_rules_never(n) == n < 0

\* `total_rules == 0`
no_rules(n) == n = 0

\* args = parser.parse_args(); --no-color; neither -t nor -f
ParseArgs ==
    /\ pc = "start"
    /\ enabled' = IF args.no_color THEN FALSE ELSE enabled
    /\ IF no_input(args)
       THEN /\ out' = Append(out, Line("help", <<"usage: regex">>))
            /\ Exit(1)
       ELSE /\ pc' = "load"
            /\ UNCHANGED <<out, exit_code>>
    /\ UNCHANGED <<inputs, files, rules, total_rules, lineno, tokens_scanned,
                   total_matches, calls>>

\* print("[*] Loading rules..."); rules, total_rules = load_rules(args.directory)
LoadRules ==
    /\ pc = "load"
    /\ LET r == load_rules(enabled, DEFAULT_RULES_DIR, entries)
           printed == <<Line("loading", wrap(enabled, <<"[*] Loading rules...">>, CYAN))>>
                      \o r.out
       IN  /\ out' = out \o printed
           /\ files' = r.files
           /\ IF r.raised
              THEN /\ calls' = Append(calls, Call("load_rules", <<>>, -1, 0, r.out))
                   /\ Exit(1)
                   /\ UNCHANGED <<rules, total_rules>>
              ELSE /\ calls' = Append(calls, Call("load_rules", <<>>, r.total, 0, r.out))
                   /\ rules' = r.rules
                   /\ total_rules' = r.total
                   /\ pc' = "loaded"
                   /\ UNCHANGED exit_code
    /\ UNCHANGED <<inputs, enabled, lineno, tokens_scanned, total_matches>>

\* if total_rules == 0: error, sys.exit(1); else "[+] Loaded ..."
CheckRules ==
    /\ pc = "loaded"
    /\ IF no_rules(total_rules)
       THEN /\ out' = Append(out, Line("no_rules",
                        wrap(enabled, <<"[!] No valid rules loaded">>, RED)))
            /\ Exit(1)
       ELSE /\ out' = Append(out, Line("loaded",
                        wrap(enabled, <<"[+] Loaded ">> \o str_int(total_rules)
                                      \o <<" regex patterns\n">>, GREEN)))
            /\ pc' = "scan"
            /\ UNCHANGED exit_code
    /\ UNCHANGED <<inputs, enabled, files, rules, total_rules, lineno, tokens_scanned,
                   total_matches, calls>>

\* if args.token: scan_token(args.token, rules); print_summary(1, matches)
ScanSingle ==
    /\ pc = "scan"
    /\ Truthy(args.token)
    /\ LET r == scan_token(enabled, args.token.s, rules) IN
        /\ out' = out
                  \o <<Line("token", wrap(enabled, <<"Token:">>, BOLD) \o <<" ">>
                                     \o wrap(enabled, args.token.s, YELLOW))>>
                  \o r.out
                  \o print_summary(enabled, 1, r.total_matches)
        /\ calls' = calls \o
                << Call("scan_token", args.token.s, r.total_matches, 0, r.out),
                   Call("print_summary", <<>>, 1, r.total_matches,
                        print_summary(enabled, 1, r.total_matches)) >>
    /\ Exit(0)
    /\ UNCHANGED <<inputs, enabled, files, rules, total_rules, lineno, tokens_scanned,
                   total_matches>>

\* scan_file with a missing token file made fatal
ScanFileOpen_ExitOne ==
    /\ pc = "scan"
    /\ ~Truthy(args.token)
    /\ Truthy(args.file)
    /\ IF ~tokfile.exists
       THEN /\ out' = Append(out, Line("no_input",
                        wrap(enabled, <<"[!] Input file not found">>, RED)))
            /\ Exit(1)
       ELSE /\ pc' = "lines"
            /\ UNCHANGED <<out, exit_code>>
    /\ lineno' = 0
    /\ tokens_scanned' = 0
    /\ total_matches' = 0
    /\ UNCHANGED <<inputs, enabled, files, rules, total_rules, calls>>

\* elif args.file: scan_file(args.file, rules), up to its loop
ScanFileOpen ==
    /\ pc = "scan"
    /\ ~Truthy(args.token)
    /\ Truthy(args.file)
    /\ IF ~tokfile.exists
       THEN /\ out' = Append(out, Line("no_input",
                        wrap(enabled, <<"[!] Input file not found">>, RED)))
            /\ Exit(0)
       ELSE /\ pc' = "lines"
            /\ UNCHANGED <<out, exit_code>>
    /\ lineno' = 0
    /\ tokens_scanned' = 0
    /\ total_matches' = 0
    /\ UNCHANGED <<inputs, enabled, files, rules, total_rules, calls>>

\* one turn of `for line in f`
ScanLine ==
    /\ pc = "lines"
    /\ lineno < Len(tokfile.lines)
    /\ lineno' = lineno + 1
    /\ LET token == strip(LinePool[tokfile.lines[lineno + 1]]) IN
        IF token = <<>>
        THEN UNCHANGED <<tokens_scanned, total_matches, out, calls>>
        ELSE LET r == scan_token(enabled, token, rules) IN
            /\ tokens_scanned' = tokens_scanned + 1
            /\ total_matches' = total_matches + r.total_matches
            /\ out' = out
                      \o << Line("separator", <<"\n====">>),
                            Line("token", wrap(enabled, <<"Token:">>, BOLD) \o <<" ">>
                                          \o wrap(enabled, token, YELLOW)) >>
                      \o r.out
            /\ calls' = Append(calls,
                               Call("scan_token", token, r.total_matches, 0, r.out))
    /\ UNCHANGED <<inputs, enabled, pc, files, rules, total_rules, exit_code>>

\* the end of scan_file without its summary
ScanFileEnd_NoSummary ==
    /\ pc = "lines"
    /\ lineno = Len(tokfile.lines)
    /\ Exit(0)
    /\ UNCHANGED <<inputs, enabled, files, rules, total_rules, lineno, tokens_scanned,
                   total_matches, out, calls>>

\* after the loop: print_summary(tokens_scanned, total_matches); main returns
ScanFileEnd ==
    /\ pc = "lines"
    /\ lineno = Len(tokfile.lines)
    /\ out' = out \o print_summary(enabled, tokens_scanned, total_matches)
    /\ calls' = Append(calls,
                       Call("print_summary", <<>>, tokens_scanned, total_matches,
                            print_summary(enabled, tokens_scanned, total_matches)))
    /\ Exit(0)
    /\ UNCHANGED <<inputs, enabled, files, rules, total_rules, lineno, tokens_scanned,
                   total_matches>>

Next ==
    \/ ParseArgs
    \/ LoadRules
    \/ CheckRules
    \/ ScanSingle
    \/ ScanFileOpen
    \/ ScanLine
    \/ ScanFileEnd

Spec == Init /\ [][Next]_vars

SpecLoad == InitLoad /\ [][Next]_vars

SpecScan == InitScan /\ [][Next]_vars

(***************************************************************************)
(* What the claims speak of                                                *)
(***************************************************************************)
Range(f) == { f[k] : k \in DOMAIN f }

LoadCalled == calls /= <<>> /\ calls[1].fn = "load_rules"
LoadReturned == LoadCalled /\ calls[1].a >= 0
ScanCalls == SelectSeq(calls, LAMBDA c : c.fn = "scan_token")
SummaryCalls == SelectSeq(calls, LAMBDA c : c.fn = "print_summary")
Printed(kind) == \E k \in 1..Len(out) : out[k].kind = kind
Exited == pc = "exit"
\* the run got past the loading of the rules: main went on to scan
PastLoading == LoadReturned /\ Printed("loaded")

\* an input counts as supplied when it is given and not the empty string
Supplied(v) == Truthy(v)
FileMode == ~Truthy(args.token) /\ Truthy(args.file)

EndsWith(s, suffix) ==
    Len(s) >= Len(suffix) /\ SubSeq(s, Len(s) - Len(suffix) + 1, Len(s)) = suffix

YML == <<".", "y", "m", "l">>
YAML == <<".", "y", "a", "m", "l">>

\* the directory entry with a path
EntryAt(path) ==
    CHOOSE e \in Range(entries) : EntryPath(DEFAULT_RULES_DIR, e) = path

\* an entry under `patterns` that has a regex (a string, not empty), and one
\* that compiles
Loadable(item) ==
    /\ item.t = "map"
    /\ "pattern" \in DOMAIN item.f
    /\ item.f["pattern"].t = "map"
    /\ "regex" \in DOMAIN item.f["pattern"].f
    /\ item.f["pattern"].f["regex"].t = "str"
    /\ item.f["pattern"].f["regex"].s /= <<>>
    /\ re_compile(item.f["pattern"].f["regex"].s).ok

\* the entries under `patterns` of a rule file, none if it has no such list
PatternEntries(e) ==
    LET data == EntryData(e) IN
    IF e.readable /\ data.t = "map" /\ "patterns" \in DOMAIN data.f
       /\ data.f["patterns"].t = "list"
    THEN data.f["patterns"].l
    ELSE <<>>

RuleOf(item) ==
    [name |-> IF "name" \in DOMAIN item.f["pattern"].f
              THEN item.f["pattern"].f["name"] ELSE PyStr(UNKNOWN),
     regex |-> re_compile(item.f["pattern"].f["regex"].s).ast]

\* the rule set the claim describes: for each file found, its loadable entries
ClaimedRulesOf(path) ==
    LET items == SelectSeq(PatternEntries(EntryAt(path)), Loadable)
    IN  [k \in 1..Len(items) |-> RuleOf(items[k])]

ClaimedRuleSet ==
    LET with == SelectSeq(files, LAMBDA path : ClaimedRulesOf(path) /= <<>>)
    IN  [k \in 1..Len(with) |-> [file |-> with[k], rules |-> ClaimedRulesOf(with[k])]]

RECURSIVE SumLen(_, _)
SumLen(rs, k) == IF k > Len(rs) THEN 0 ELSE Len(rs[k].rules) + SumLen(rs, k + 1)

\* C1: for every rules directory load_rules returns the rule set that maps
\* each discovered file with at least one entry that has a compilable regex to
\* those entries in order, and the count of those entries.
C1_LoadContract ==
    LoadCalled =>
        /\ LoadReturned
        /\ rules = ClaimedRuleSet
        /\ total_rules = SumLen(ClaimedRuleSet, 1)
        /\ calls[1].a = total_rules

\* C4: no error local to one file or one entry aborts the load: load_rules
\* always returns, and only a rule count of zero ends the run with status 1.
C4_LoadNeverAborts ==
    LoadCalled =>
        /\ calls[1].a >= 0
        /\ (Exited /\ exit_code = 1) => calls[1].a = 0

\* C9: a directory entry is read as a rule file if and only if it lies
\* directly in the rules directory and its name ends in .yml or .yaml.
C9_Discovery ==
    LoadCalled =>
        \A k \in 1..Len(entries) :
            (EntryPath(DEFAULT_RULES_DIR, entries[k]) \in Range(files))
            <=> /\ ~entries[k].sub
                /\ \/ EndsWith(NamePool[entries[k].name], YML)
                   \/ EndsWith(NamePool[entries[k].name], YAML)

\* C5: the driver goes on to load rules exactly when exactly one of -t and -f
\* was supplied, and with neither it prints the help and exits with status 1
\* without loading.
C5_ExactlyOneInput ==
    pc /= "start" =>
        /\ (pc = "load" \/ LoadCalled) <=> (Supplied(args.token) /= Supplied(args.file))
        /\ (~Supplied(args.token) /\ ~Supplied(args.file))
            => (Exited /\ exit_code = 1 /\ Printed("help") /\ calls = <<>>)

\* C3: rules are loaded once, before any scan, and a run whose load yields no
\* rule prints an error and exits with status 1: it never scans and never
\* prints a summary.
C3_NoScanWithoutRules ==
    /\ Len(SelectSeq(calls, LAMBDA c : c.fn = "load_rules")) <= 1
    /\ (ScanCalls /= <<>> \/ SummaryCalls /= <<>> \/ pc \in {"scan", "lines"})
        => (LoadReturned /\ calls[1].a > 0 /\ total_rules > 0)
    /\ (LoadReturned /\ calls[1].a = 0 /\ pc /= "loaded")
        => /\ Exited /\ exit_code = 1
           /\ out[Len(out)].kind = "no_rules"
           /\ Len(calls) = 1

C3_Witness ==
    /\ entries = <<>>
    /\ Exited /\ exit_code = 1
    /\ LoadReturned /\ total_rules = 0
    /\ Printed("no_rules")

\* C7 as stated: every run that gets past the loading prints the summary
\* exactly once, after all its scanning.
C7_SummaryOnceAlways ==
    (Exited /\ PastLoading) =>
        /\ Len(SummaryCalls) = 1
        /\ calls[Len(calls)].fn = "print_summary"

\* C7, amended: no run prints the summary more than once or scans after it; a
\* run that gets past the loading prints it exactly once, as its last call,
\* unless it is a file run whose token file does not exist, which prints none.
C7_SummaryOnce ==
    /\ Len(SummaryCalls) <= 1
    /\ SummaryCalls /= <<>> => (calls[Len(calls)].fn = "print_summary" /\ Exited)
    /\ (Exited /\ PastLoading) =>
        (Len(SummaryCalls) = 1 <=> ~(FileMode /\ ~tokfile.exists))

C7_Witness ==
    /\ Exited /\ PastLoading /\ FileMode /\ tokfile.exists
    /\ Len(ScanCalls) >= 2
    /\ Len(SummaryCalls) = 1
    /\ calls[Len(calls)].fn = "print_summary"

\* C8: a file run whose rules loaded and whose token file does not exist
\* prints an error, scans nothing and ends with exit status 0.
C8_MissingFile ==
    (Exited /\ PastLoading /\ FileMode /\ ~tokfile.exists) =>
        /\ exit_code = 0
        /\ out[Len(out)].kind = "no_input"
        /\ ScanCalls = <<>>

C8_Witness ==
    /\ Exited /\ PastLoading /\ FileMode /\ ~tokfile.exists
    /\ exit_code = 0
    /\ Printed("no_input")

NoAnsi(lines) ==
    \A k \in 1..Len(lines) : \A j \in 1..Len(lines[k].text) :
        lines[k].text[j] \notin AnsiCodes

\* C10: the color flag is enabled only on a terminal, is never turned back
\* on, is off before the first line is printed when the output is no terminal
\* or --no-color is given, and a run with the flag off prints no ANSI code.
C10_ColorMonotone ==
    /\ [](enabled => tty)
    /\ []((out /= <<>> /\ (~tty \/ args.no_color)) => ~enabled)
    /\ [](~enabled => NoAnsi(out))
    /\ [][~enabled => ~enabled']_vars

C10_Witness ==
    /\ tty /\ args.no_color /\ ~enabled
    /\ Exited /\ Len(SummaryCalls) = 1
    /\ Printed("match_rule")
    /\ NoAnsi(out)

\* the (file, rule) pairs of the loaded rules whose pattern is found in a token
MatchingPairs(token) ==
    { p \in UNION { { <<i, j>> : j \in 1..Len(rules[i].rules) } : i \in 1..Len(rules) } :
        re_search(rules[p[1]].rules[p[2]].regex, token) }

KindCount(lines, kind) == Cardinality({ k \in 1..Len(lines) : lines[k].kind = kind })

\* C2: scan_token returns the number of (file, rule) pairs whose pattern is
\* found in the token, prints one group per file with a matching rule, and
\* prints "no matches found" exactly when it returns 0.
C2_ScanCount ==
    \A k \in 1..Len(ScanCalls) :
        LET c == ScanCalls[k]
            pairs == MatchingPairs(c.token)
        IN  /\ c.a = Cardinality(pairs)
            /\ KindCount(c.out, "match_file") = Cardinality({ p[1] : p \in pairs })
            /\ KindCount(c.out, "match_rule") = Cardinality(pairs)
            /\ (KindCount(c.out, "no_match") = 1) <=> (c.a = 0)
            /\ KindCount(c.out, "no_match") <= 1

\* a token that two files match, by rules of the same name among others
C2_Witness ==
    \E k \in 1..Len(ScanCalls) :
        LET c == ScanCalls[k]
            pairs == MatchingPairs(c.token)
        IN  /\ c.a >= 3
            /\ KindCount(c.out, "match_file") = 2
            /\ \E p, q \in pairs :
                /\ p[1] /= q[1]
                /\ rules[p[1]].rules[p[2]].name = rules[q[1]].rules[q[2]].name

NonBlank(line) == \E k \in 1..Len(line) : line[k] \notin Whitespace

\* a line without the whitespace at its two ends
Trimmed(line) ==
    LET inked == { k \in 1..Len(line) : line[k] \notin Whitespace }
        first == CHOOSE k \in inked : \A m \in inked : k <= m
        last == CHOOSE k \in inked : \A m \in inked : m <= k
    IN  IF inked = {} THEN <<>> ELSE SubSeq(line, first, last)

FileLines == [k \in 1..Len(tokfile.lines) |-> LinePool[tokfile.lines[k]]]

RECURSIVE SumReturned(_, _)
SumReturned(cs, k) == IF k > Len(cs) THEN 0 ELSE cs[k].a + SumReturned(cs, k + 1)

\* C6: a file run over an existing token file scans each line that is not
\* blank once, in file order and trimmed, scans no blank line, and its summary
\* shows the number of those lines and the sum of the counts the scans returned.
C6_FileScan ==
    (Exited /\ PastLoading /\ FileMode /\ tokfile.exists) =>
        LET nonblank == SelectSeq(FileLines, NonBlank) IN
        /\ Len(ScanCalls) = Len(nonblank)
        /\ \A k \in 1..Len(ScanCalls) : ScanCalls[k].token = Trimmed(nonblank[k])
        /\ Len(SummaryCalls) = 1
        /\ SummaryCalls[1].a = Len(nonblank)
        /\ SummaryCalls[1].b = SumReturned(ScanCalls, 1)

\* a file with a blank line and a line with whitespace around its token
C6_Witness ==
    /\ Exited /\ PastLoading /\ FileMode /\ tokfile.exists
    /\ \E k \in 1..Len(FileLines) : ~NonBlank(FileLines[k])
    /\ \E k \in 1..Len(FileLines) :
        NonBlank(FileLines[k]) /\ Head(FileLines[k]) \in Whitespace
    /\ Len(SummaryCalls) = 1
    /\ SummaryCalls[1].a = 1
    /\ SummaryCalls[1].b >= 1

====
